---- MODULE Spec2Model ----
(***************************************************************************)
(* A model of Waiter: the barrier watcher (wait.go), the state publisher   *)
(* (customer.go) and the Consul key-value store they talk to.              *)
(*                                                                         *)
(* Strings that the code slices or trims (prefixes, names, keys) are       *)
(* sequences of one-character strings; values travel through the store as  *)
(* byte sequences.                                                         *)
(***************************************************************************)
EXTENDS Integers, Sequences, FiniteSets, TLC

VARIABLES
    kv,            \* the store (leader): key -> [present, value, session]
    kvIndex,       \* the store's change index
    replica,       \* a follower's copy [kv, index], served to stale reads
    now,           \* wall clock, in ticks
    wpc,           \* position of the Wait call
    prefix,        \* Wait.Prefix
    minimumNodes,  \* Wait.MinimumNodes
    isReady,       \* Wait.IsReady
    timeout,       \* argument of Wait
    startTime,     \* Wait.startTime
    lastWaitIndex, \* local of Wait
    processedIndex, \* history: the index of the listing updateNodes processed last
    nodes,         \* local of Wait: the snapshot map
    newNodes,      \* local of Wait: the listing of this round
    allReady,      \* local of Wait: first result of updateNodes
    nodesCount,    \* local of Wait: second result of updateNodes
    retOk,         \* first return value of Wait
    retErr,        \* second return value of Wait (TRUE: a non-nil error)
    nodeUpdateCh,  \* Wait.nodeUpdate
    nodeReadyCh,   \* Wait.nodeReady
    allReadyCh,    \* Wait.allReady
    sessions,      \* the store's live sessions
    sessID,        \* Session.ID of the publisher's Session
    npc,           \* position of the NewSession call
    newRet,        \* what NewSession returned: "none", "session" or "err"
    closedCh,      \* Session.closedCh: "nil" while no channel has been made for it
    doneSent,      \* history: a send of Close on closedCh was taken by a receiver
    sigPending,    \* signals buffered in makeShutdownCh's signalCh
    fwd,           \* makeShutdownCh's goroutine: "recv" on signalCh or "send" on resultCh
    lpc,           \* NewSession's goroutine: "none", "wait" on closeCh, "close", "done"
    clpc,          \* position of each goroutine's Close call
    closeRet,      \* return value of each goroutine's last Close
    destroys,      \* history: destroy requests for the lease the store has executed
    renewals,      \* history: parity of the renew requests RenewPeriodic has issued
    custSrc,       \* which source file's Customer is built
    custPrefix,    \* Customer.Prefix
    custName,      \* Customer.Name
    custSession,   \* the session argument of Run (Customer.session)
    sessionID,     \* local of Run
    cpc,           \* position of the Run call
    running,       \* Customer.running (session.go)
    mayObserve,    \* the values of Customer.running a read by the caller may yield
    toSend,        \* the states the caller has still to send on Customer.State
    chClosed,      \* whether the caller has closed Customer.State
    state,         \* loop variable of Run
    runErr,        \* return value of Run
    rpc,           \* position of the Remove call
    removeRet,     \* return value of the last Remove
    delReqs        \* history: the delete requests Run has issued for the key

storeVars == <<kv, kvIndex, replica>>
confVars  == <<prefix, minimumNodes, isReady>>
chanVars  == <<nodeUpdateCh, nodeReadyCh, allReadyCh>>
waitVars  == <<wpc, timeout, startTime, lastWaitIndex, processedIndex, nodes, newNodes,
               allReady, nodesCount, retOk, retErr>>
lifeVars  == <<npc, newRet, closedCh, doneSent, sigPending, fwd, lpc, clpc, closeRet,
               destroys, renewals>>
sessVars  == <<sessions, sessID, lifeVars>>
custVars  == <<custSrc, custPrefix, custName, custSession, sessionID, cpc, running,
               mayObserve, toSend, chClosed, state, runErr, rpc, removeRet, delReqs>>
vars      == <<storeVars, now, confVars, waitVars, chanVars, sessVars, custVars>>

----------------------------------------------------------------------------
(* Bounds *)

MaxIndex == 5          \* other publishers write while the change index is below this
MaxTime == 2           \* the clock saturates here; timeouts are below it

(* Program constants *)

ChanCap == 2           \* capacity of the three event channels

----------------------------------------------------------------------------
(* Strings *)

Slash == "/"

RECURSIVE TrimLeft(_, _)
TrimLeft(s, c) ==
    IF s # <<>> /\ Head(s) = c THEN TrimLeft(Tail(s), c) ELSE s

RECURSIVE TrimRight(_, _)
TrimRight(s, c) ==
    IF s # <<>> /\ s[Len(s)] = c THEN TrimRight(SubSeq(s, 1, Len(s) - 1), c) ELSE s

\* strings.Trim(s, "/")
Trim(s, c) == TrimRight(TrimLeft(s, c), c)

\* strings.HasPrefix, as the store applies it to a listing by prefix
HasPrefix(s, p) == Len(s) >= Len(p) /\ SubSeq(s, 1, Len(p)) = p

\* s[n:]
SliceFrom(s, n) == SubSeq(s, n + 1, Len(s))

\* byte order of the characters used
CharRank == ("/" :> 47) @@ ("a" :> 97) @@ ("b" :> 98) @@ ("w" :> 119)

RECURSIVE StrLess(_, _)
StrLess(s, t) ==
    IF s = <<>> THEN t # <<>>
    ELSE IF t = <<>> THEN FALSE
    ELSE IF Head(s) # Head(t) THEN CharRank[Head(s)] < CharRank[Head(t)]
    ELSE StrLess(Tail(s), Tail(t))

\* the state labels, and their bytes ([]byte(state) and string(value))
States == {"busy", "ready"}
AllStates == States \cup {""}

ByteTable == ("" :> <<>>) @@ ("busy" :> <<98, 117, 115, 121>>)
             @@ ("ready" :> <<114, 101, 97, 100, 121>>)

Bytes(s) == ByteTable[s]

StringOf(b) == CHOOSE s \in AllStates : ByteTable[s] = b

----------------------------------------------------------------------------
(* Names and keys *)

Prefixes == {<<"w">>, <<"w", "/">>}
Names == {<<"a">>, <<"b">>}

\* Customer.fullKey
fullKey(p, n) == Trim(p, Slash) \o <<Slash>> \o Trim(n, Slash)

\* the key createTreeEntry writes
TreeKey(p) == Trim(p, Slash) \o <<Slash>>

Keys == {TreeKey(p) : p \in Prefixes} \cup {fullKey(p, n) : p \in Prefixes, n \in Names}

NoSession == ""

Absent == [present |-> FALSE, value |-> <<>>, session |-> NoSession]

Entry(v, s) == [present |-> TRUE, value |-> v, session |-> s]

----------------------------------------------------------------------------
(* The store *)

RECURSIVE SortKeys(_)
SortKeys(S) ==
    IF S = {} THEN <<>>
    ELSE LET m == CHOOSE k \in S : \A j \in S \ {k} : StrLess(k, j)
         IN  <<m>> \o SortKeys(S \ {m})

\* KV.List(prefix) on one server's view: the pairs under the prefix, in key order
List(view, p) ==
    LET ks == SortKeys({k \in Keys : view[k].present /\ HasPrefix(k, p)})
    IN  [i \in 1..Len(ks) |-> [Key |-> ks[i], Value |-> view[ks[i]].value]]

\* KV.Put: writes the value, leaves the lock holder alone
StorePut(k, v) ==
    /\ kv' = [kv EXCEPT ![k] = Entry(v, kv[k].session)]
    /\ kvIndex' = kvIndex + 1

\* KV.Delete
StoreDelete(k) ==
    /\ kv' = [kv EXCEPT ![k] = Absent]
    /\ kvIndex' = kvIndex + 1

\* the follower catches up with the leader
Replicate ==
    /\ replica # [kv |-> kv, index |-> kvIndex]
    /\ replica' = [kv |-> kv, index |-> kvIndex]
    /\ UNCHANGED <<kv, kvIndex, now, confVars, waitVars, chanVars, sessVars,
                   custVars>>

----------------------------------------------------------------------------
(* The barrier watcher *)

IsReadyFns == {"nil", "stateIsReady"}

\* NewWaiter: a nil isReady becomes the default, which accepts every node
NewWaiterIsReady(fn) == IF fn = "nil" THEN "default" ELSE fn

\* a default IsReady that accepts only the state "ready"
IsReadyOnlyReady(fn, node) == node.State = "ready"

\* w.IsReady(&node)
IsReady(fn, node) == IF fn = "default" THEN TRUE ELSE node.State = "ready"

\* a send that queues the event whatever the channel holds
TrySendUnbounded(ch, v) == Append(ch, v)

\* select { case ch <- v: default: }
TrySend(ch, v) == IF Len(ch) < ChanCap THEN Append(ch, v) ELSE ch

MapPut(m, k, v) == [x \in DOMAIN m \cup {k} |-> IF x = k THEN v ELSE m[x]]

MapDelete(m, k) == [x \in DOMAIN m \ {k} |-> m[x]]

\* the iteration orders of a Go map with key set S
Orders(S) ==
    {o \in [1..Cardinality(S) -> S] : \A i, j \in 1..Cardinality(S) : i # j => o[i] # o[j]}

\* shouldStop stopping already when the elapsed time equals the timeout
shouldStopAtLimit(t, start, limit) == t - start >= limit

\* a timeout check that never stops the loop
shouldStopNever(t, start, limit) == FALSE

\* Wait.shouldStop
shouldStop(t, start, limit) == t - start > limit

\* getNodeList keeping the entry whose name is empty (the tree entry)
RECURSIVE NodesOfWithTreeEntry(_, _)
NodesOfWithTreeEntry(list, p) ==
    IF list = <<>> THEN <<>>
    ELSE <<[Node |-> Trim(SliceFrom(Head(list).Key, Len(p)), Slash),
            State |-> StringOf(Head(list).Value)]>> \o NodesOfWithTreeEntry(Tail(list), p)

\* getNodeList taking the rest of the key as the node's id, slashes included
RECURSIVE NodesOfUntrimmed(_, _)
NodesOfUntrimmed(list, p) ==
    IF list = <<>> THEN <<>>
    ELSE LET nodeName == SliceFrom(Head(list).Key, Len(p))
             rest == NodesOfUntrimmed(Tail(list), p)
         IN  IF nodeName # <<>>
             THEN <<[Node |-> nodeName, State |-> StringOf(Head(list).Value)]>> \o rest
             ELSE rest

\* Wait.getNodeList, the loop over the pairs the store returned
RECURSIVE NodesOf(_, _)
NodesOf(list, p) ==
    IF list = <<>> THEN <<>>
    ELSE LET nodeName == Trim(SliceFrom(Head(list).Key, Len(p)), Slash)
             rest == NodesOf(Tail(list), p)
         IN  IF nodeName # <<>>
             THEN <<[Node |-> nodeName, State |-> StringOf(Head(list).Value)]>> \o rest
             ELSE rest

Contains(listing, nodeName) == \E i \in 1..Len(listing) : listing[i].Node = nodeName

\* the first loop without its delete(nodes, nodeName)
RECURSIVE DropRemovedKeepingEntry(_, _, _)
DropRemovedKeepingEntry(acc, listing, order) ==
    IF order = <<>> THEN acc
    ELSE LET nodeName == Head(order)
             node == acc.nodes[nodeName]
             next == IF \A i \in 1..Len(listing) : listing[i].Node # nodeName
                     THEN [acc EXCEPT
                             !.upd = IF Len(@) < ChanCap
                                     THEN Append(@, [Node |-> nodeName, State |-> "",
                                                     LastState |-> node.State])
                                     ELSE @]
                     ELSE acc
         IN  DropRemovedKeepingEntry(next, listing, Tail(order))

\* updateNodes, first loop: the snapshot's nodes, visited in the order `order`
RECURSIVE DropRemoved(_, _, _)
DropRemoved(acc, listing, order) ==
    IF order = <<>> THEN acc
    ELSE LET nodeName == Head(order)
             node == acc.nodes[nodeName]
             next == IF ~Contains(listing, nodeName)
                     THEN [acc EXCEPT
                             !.upd = TrySend(@, [Node |-> nodeName, State |-> "",
                                                 LastState |-> node.State]),
                             !.att = Append(@, [Node |-> nodeName, State |-> "",
                                                LastState |-> node.State]),
                             !.nodes = MapDelete(@, nodeName)]
                     ELSE acc
         IN  DropRemoved(next, listing, Tail(order))

\* the second loop's iteration calling IsReady on the node whether or not it has
\* changed
EvaluateNodeRechecking(acc, listed, fn) ==
    LET exists == listed.Node \in DOMAIN acc.nodes
        old == IF exists THEN acc.nodes[listed.Node] ELSE listed
        stateDiffers == old.State # listed.State
        hasChanged == ~exists \/ stateDiffers
        event == [Node |-> listed.Node, State |-> listed.State,
                  LastState |-> IF stateDiffers THEN old.State ELSE ""]
        sent == IF hasChanged
                THEN [acc EXCEPT !.nodes = MapPut(@, listed.Node, listed),
                                 !.upd = TrySend(@, event),
                                 !.att = Append(@, event)]
                ELSE acc
    IN  IF IsReady(fn, listed)
        THEN IF hasChanged THEN [sent EXCEPT !.rdy = TrySend(@, listed)] ELSE sent
        ELSE [sent EXCEPT !.allReady = FALSE]

\* the second loop's iteration storing and announcing the node whether or not
\* it has changed
EvaluateNodeAlways(acc, listed, fn) ==
    LET exists == listed.Node \in DOMAIN acc.nodes
        old == IF exists THEN acc.nodes[listed.Node] ELSE listed
        lastState == IF old.State # listed.State THEN old.State ELSE ""
        event == [Node |-> listed.Node, State |-> listed.State, LastState |-> lastState]
        sent == [acc EXCEPT !.nodes = MapPut(@, listed.Node, listed),
                            !.upd = TrySend(@, event),
                            !.att = Append(@, event)]
    IN  IF IsReady(fn, listed)
        THEN [sent EXCEPT !.rdy = TrySend(@, listed)]
        ELSE [sent EXCEPT !.allReady = FALSE]

\* updateNodes, second loop, one iteration: newNodes[i]
EvaluateNode(acc, listed, fn) ==
    LET exists == listed.Node \in DOMAIN acc.nodes
        old == IF exists THEN acc.nodes[listed.Node] ELSE listed
        stateDiffers == old.State # listed.State
        hasChanged == ~exists \/ stateDiffers
        lastState == IF stateDiffers THEN old.State ELSE ""
        node == listed
    IN  IF ~hasChanged THEN acc
        ELSE LET sent == [acc EXCEPT
                            !.nodes = MapPut(@, node.Node, node),
                            !.upd = TrySend(@, [Node |-> node.Node, State |-> node.State,
                                                LastState |-> lastState]),
                            !.att = Append(@, [Node |-> node.Node, State |-> node.State,
                                               LastState |-> lastState])]
             IN  IF IsReady(fn, node)
                 THEN [sent EXCEPT !.rdy = TrySend(@, node)]
                 ELSE [sent EXCEPT !.allReady = FALSE]

RECURSIVE EvaluateListed(_, _, _, _)
EvaluateListed(acc, listing, i, fn) ==
    IF i > Len(listing) THEN acc
    ELSE EvaluateListed(EvaluateNode(acc, listing[i], fn), listing, i + 1, fn)

\* Wait.updateNodes: the new snapshot, allReady, nodeCount and the two channels;
\* att records every WaitNodeUpdate the call builds and tries to send, in order
updateNodes(snapshot, listing, order, fn, upd, rdy) ==
    LET start == [nodes |-> snapshot, allReady |-> TRUE, upd |-> upd, rdy |-> rdy,
                  att |-> <<>>]
        swept == DropRemoved(start, listing, order)
        done == EvaluateListed(swept, listing, 1, fn)
    IN  [nodes |-> done.nodes, allReady |-> done.allReady, nodeCount |-> Len(listing),
         upd |-> done.upd, rdy |-> done.rdy, att |-> done.att]

\* the decision asking for more nodes than MinimumNodes
SucceedsAboveMinimum(ready, count, minimum) == ready /\ count > minimum

\* the test of line 115
Succeeds(ready, count, minimum) == ready /\ count >= minimum

EmptyMap == [x \in {} |-> x]

Elapsed == now - startTime

Min(a, b) == IF a < b THEN a ELSE b

\* return from Wait
Return(ok, err) ==
    /\ wpc' = "done"
    /\ retOk' = ok
    /\ retErr' = err

\* Wait, lines 90-95: note the start time, create the tree entry
WaitBegin(t, fail) ==
    /\ wpc = "init"
    /\ startTime' = now
    /\ timeout' = t
    /\ IF fail
       THEN /\ Return(FALSE, TRUE)
            /\ UNCHANGED <<kv, kvIndex>>
       ELSE /\ StorePut(TreeKey(prefix), <<>>)
            /\ wpc' = "loop"
            /\ UNCHANGED <<retOk, retErr>>
    /\ UNCHANGED <<replica, now, confVars, lastWaitIndex, nodes, newNodes, allReady,
                   nodesCount, processedIndex, chanVars, sessVars,
                   custVars>>

\* Wait, line 100 (and line 125 when the loop ends)
LoopCheck ==
    /\ wpc = "loop"
    /\ IF shouldStop(now, startTime, timeout)
       THEN Return(FALSE, FALSE)
       ELSE /\ wpc' = "getNodeList"
            /\ UNCHANGED <<retOk, retErr>>
    /\ UNCHANGED <<storeVars, now, confVars, timeout, startTime, lastWaitIndex, nodes,
                   newNodes, allReady, nodesCount, processedIndex, chanVars, sessVars,
                   custVars>>

\* Wait going back to the head of the loop when the listing query fails
GetNodeListRetrying(stale, ceiling, fail) ==
    /\ wpc = "getNodeList"
    /\ IF fail
       THEN /\ wpc' = "loop"
            /\ UNCHANGED <<now, lastWaitIndex, newNodes, retOk, retErr>>
       ELSE LET view == IF stale THEN replica ELSE [kv |-> kv, index |-> kvIndex]
                fresh == lastWaitIndex = 0 \/ view.index > lastWaitIndex
            IN  /\ ceiling = ~fresh
                /\ now' = IF ceiling THEN Min(now + 1, MaxTime) ELSE now
                /\ newNodes' = NodesOf(List(view.kv, prefix), prefix)
                /\ lastWaitIndex' = view.index
                /\ wpc' = "recheck"
                /\ UNCHANGED <<retOk, retErr>>
    /\ UNCHANGED <<storeVars, confVars, timeout, startTime, nodes, allReady, nodesCount, processedIndex,
                   chanVars, sessVars,
                   custVars>>

\* Wait, lines 101-106: the blocking listing query. It is answered by the leader
\* or (AllowStale) by the follower, once the answering server's index has passed
\* waitIndex, or with whatever that server holds when the wait ceiling elapses.
GetNodeList(stale, ceiling, fail) ==
    /\ wpc = "getNodeList"
    /\ IF fail
       THEN /\ Return(FALSE, TRUE)
            /\ UNCHANGED <<now, lastWaitIndex, newNodes>>
       ELSE LET view == IF stale THEN replica ELSE [kv |-> kv, index |-> kvIndex]
                fresh == lastWaitIndex = 0 \/ view.index > lastWaitIndex
            IN  /\ ceiling = ~fresh
                /\ now' = IF ceiling THEN Min(now + 1, MaxTime) ELSE now
                /\ newNodes' = NodesOf(List(view.kv, prefix), prefix)
                /\ lastWaitIndex' = view.index
                /\ wpc' = "recheck"
                /\ UNCHANGED <<retOk, retErr>>
    /\ UNCHANGED <<storeVars, confVars, timeout, startTime, nodes, allReady, nodesCount, processedIndex,
                   chanVars, sessVars,
                   custVars>>

\* Wait, lines 110-122: the second timeout check, updateNodes and the decision
EvaluateRound ==
    /\ wpc = "recheck"
    /\ IF shouldStop(now, startTime, timeout)
       THEN /\ Return(FALSE, FALSE)
            /\ UNCHANGED <<nodes, allReady, nodesCount, processedIndex, chanVars>>
       ELSE \E order \in Orders(DOMAIN nodes) :
            LET r == updateNodes(nodes, newNodes, order, isReady, nodeUpdateCh, nodeReadyCh)
            IN  /\ nodes' = r.nodes
                /\ allReady' = r.allReady
                /\ nodesCount' = r.nodeCount
                /\ processedIndex' = lastWaitIndex
                /\ nodeUpdateCh' = r.upd
                /\ nodeReadyCh' = r.rdy
                /\ IF Succeeds(r.allReady, r.nodeCount, minimumNodes)
                   THEN /\ allReadyCh' = TrySend(allReadyCh, newNodes)
                        /\ Return(TRUE, FALSE)
                   ELSE /\ wpc' = "loop"
                        /\ UNCHANGED <<allReadyCh, retOk, retErr>>
    /\ UNCHANGED <<storeVars, now, confVars, timeout, startTime, lastWaitIndex, newNodes, sessVars,
                   custVars>>

\* a consumer takes an event from one of the three channels
ReceiveNodeUpdate ==
    /\ nodeUpdateCh # <<>>
    /\ nodeUpdateCh' = Tail(nodeUpdateCh)
    /\ UNCHANGED <<storeVars, now, confVars, waitVars, nodeReadyCh, allReadyCh, sessVars,
                   custVars>>

ReceiveNodeReady ==
    /\ nodeReadyCh # <<>>
    /\ nodeReadyCh' = Tail(nodeReadyCh)
    /\ UNCHANGED <<storeVars, now, confVars, waitVars, nodeUpdateCh, allReadyCh, sessVars,
                   custVars>>

ReceiveAllReady ==
    /\ allReadyCh # <<>>
    /\ allReadyCh' = Tail(allReadyCh)
    /\ UNCHANGED <<storeVars, now, confVars, waitVars, nodeUpdateCh, nodeReadyCh, sessVars,
                   custVars>>

\* time passes while Wait runs
Tick ==
    /\ wpc \notin {"init", "done"}
    /\ now < MaxTime
    /\ now' = now + 1
    /\ UNCHANGED <<storeVars, confVars, waitVars, chanVars, sessVars,
                   custVars>>

----------------------------------------------------------------------------
(* The nodes, seen from the watcher: other processes' publishers writing and *)
(* retracting their keys under the prefix                                    *)

NodePut(n, s) ==
    /\ kvIndex < MaxIndex
    /\ StorePut(fullKey(prefix, n), Bytes(s))
    /\ UNCHANGED <<replica, now, confVars, waitVars, chanVars, sessVars,
                   custVars>>

NodeDelete(n) ==
    /\ kvIndex < MaxIndex
    /\ kv[fullKey(prefix, n)].present
    /\ StoreDelete(fullKey(prefix, n))
    /\ UNCHANGED <<replica, now, confVars, waitVars, chanVars, sessVars,
                   custVars>>

----------------------------------------------------------------------------
(* Sessions at the store *)

OwnSession == "s1"      \* the session NewSession created for the publisher
OtherSession == "s2"    \* the session of another process publishing under the same key

\* what a session's destruction or expiry does to the store (Behavior "delete")
InvalidateAt(s) ==
    /\ sessions' = sessions \ {s}
    /\ kv' = [k \in Keys |-> IF kv[k].present /\ kv[k].session = s THEN Absent ELSE kv[k]]
    /\ kvIndex' = kvIndex + 1

\* KV.Acquire: an error for a session the store does not know, refused when
\* another session holds the key, otherwise the lock and the value are written
AcquireOutcome(k, sid) ==
    IF sid \notin sessions THEN "error"
    ELSE IF kv[k].present /\ kv[k].session \notin {NoSession, sid} THEN "refused"
    ELSE "acquired"

\* KV.Delete of a key that may be absent
StoreDeleteIfPresent(k) ==
    IF kv[k].present THEN StoreDelete(k) ELSE UNCHANGED <<kv, kvIndex>>

watcherVars == <<replica, now, confVars, waitVars, chanVars>>

\* the publisher's session expires (TTL) or the other owner's session ends
SessionInvalidate(s) ==
    /\ s \in sessions
    /\ InvalidateAt(s)
    /\ UNCHANGED <<watcherVars, sessID, lifeVars, custVars>>

\* Session.Close
CloseSession(fail) ==
    /\ sessID # ""
    /\ IF fail
       THEN UNCHANGED <<kv, kvIndex, sessions, sessID>>
       ELSE /\ IF sessID \in sessions
               THEN InvalidateAt(sessID)
               ELSE UNCHANGED <<kv, kvIndex, sessions>>
            /\ sessID' = ""
    /\ UNCHANGED <<watcherVars, lifeVars, custVars>>

\* another process acquires the publisher's key with its own session
OtherAcquire ==
    /\ kvIndex < MaxIndex
    /\ AcquireOutcome(fullKey(custPrefix, custName), OtherSession) = "acquired"
    /\ kv' = [kv EXCEPT ![fullKey(custPrefix, custName)] = Entry(<<>>, OtherSession)]
    /\ kvIndex' = kvIndex + 1
    /\ UNCHANGED <<watcherVars, sessVars, custVars>>

----------------------------------------------------------------------------
(* The session: NewSession, its signal listener, its renewal, Close *)

Closers == {"caller", "listener"}   \* the goroutines that call Close

SignalBuf == 4          \* make(chan os.Signal, 4)

MaxSignals == 2         \* signals pending at a time

\* the return of a Close call of goroutine t; the listener's goroutine ends with it
CloseReturn(t, ret) ==
    /\ clpc' = [clpc EXCEPT ![t] = "idle"]
    /\ closeRet' = [closeRet EXCEPT ![t] = ret]
    /\ lpc' = IF t = "listener" THEN "done" ELSE lpc

\* NewSession, lines 25-48: makeShutdownCh, session.Create, the listener goroutine
NewSessionCreate(fail) ==
    /\ npc = "idle"
    /\ IF fail
       THEN /\ npc' = "returned"
            /\ newRet' = "err"
            /\ UNCHANGED <<sessions, lpc>>
       ELSE /\ sessions' = sessions \cup {OwnSession}
            /\ npc' = "renew"
            /\ lpc' = "wait"
            /\ UNCHANGED newRet
    /\ UNCHANGED <<kv, kvIndex, watcherVars, sessID, closedCh, doneSent, sigPending, fwd,
                   clpc, closeRet, destroys, renewals, custVars>>

\* RenewPeriodic, called by NewSession itself: a renew request
RenewTick ==
    /\ npc = "renew"
    /\ renewals' = 1 - renewals
    /\ UNCHANGED <<kv, kvIndex, watcherVars, sessions, sessID, npc, newRet, closedCh, doneSent,
                   sigPending, fwd, lpc, clpc, closeRet, destroys, custVars>>

\* NewSession, lines 50-56: RenewPeriodic returns when a TTL has passed without a
\* renewal (its doneCh, s.closedCh, is nil and never ready), with the last error
\* of a renew request or nil if none failed; only then is s.ID assigned
RenewReturn(err) ==
    /\ npc = "renew"
    /\ npc' = "returned"
    /\ IF err
       THEN /\ newRet' = "err"
            /\ UNCHANGED sessID
       ELSE /\ newRet' = "session"
            /\ sessID' = OwnSession
    /\ UNCHANGED <<kv, kvIndex, watcherVars, sessions, closedCh, doneSent, sigPending, fwd,
                   lpc, clpc, closeRet, destroys, renewals, custVars>>

\* the process receives SIGINT or SIGTERM after signal.Notify
Signal ==
    /\ npc # "idle"
    /\ sigPending < Min(SignalBuf, MaxSignals)
    /\ sigPending' = sigPending + 1
    /\ UNCHANGED <<kv, kvIndex, watcherVars, sessions, sessID, npc, newRet, closedCh, doneSent,
                   fwd, lpc, clpc, closeRet, destroys, renewals, custVars>>

\* makeShutdownCh's goroutine takes a signal off signalCh
ForwardSignal ==
    /\ fwd = "recv"
    /\ sigPending > 0
    /\ sigPending' = sigPending - 1
    /\ fwd' = "send"
    /\ UNCHANGED <<kv, kvIndex, watcherVars, sessions, sessID, npc, newRet, closedCh, doneSent,
                   lpc, clpc, closeRet, destroys, renewals, custVars>>

\* NewSession's goroutine receives from closeCh and calls s.Close()
ListenerReceive ==
    /\ lpc = "wait"
    /\ fwd = "send"
    /\ fwd' = "recv"
    /\ lpc' = "close"
    /\ clpc' = [clpc EXCEPT !["listener"] = "check"]
    /\ UNCHANGED <<kv, kvIndex, watcherVars, sessions, sessID, npc, newRet, closedCh, doneSent,
                   sigPending, closeRet, destroys, renewals, custVars>>

\* the caller of NewSession calls Close on the Session it was given
CloseCall ==
    /\ newRet = "session"
    /\ clpc["caller"] = "idle"
    /\ clpc' = [clpc EXCEPT !["caller"] = "check"]
    /\ UNCHANGED <<kv, kvIndex, watcherVars, sessions, sessID, npc, newRet, closedCh, doneSent,
                   sigPending, fwd, lpc, closeRet, destroys, renewals, custVars>>

\* the caller calls Close on the nil *Session a failed NewSession returned
CloseNil ==
    /\ newRet = "err"
    /\ clpc["caller"] = "idle"
    /\ closeRet' = [closeRet EXCEPT !["caller"] = "nil"]
    /\ UNCHANGED <<kv, kvIndex, watcherVars, sessions, sessID, npc, newRet, closedCh, doneSent,
                   sigPending, fwd, lpc, clpc, destroys, renewals, custVars>>

\* Close going on to the destroy whatever s.ID holds
CloseCheckAlwaysDestroys(t) ==
    /\ clpc[t] = "check"
    /\ clpc' = [clpc EXCEPT ![t] = "destroy"]
    /\ UNCHANGED <<closeRet, lpc>>
    /\ UNCHANGED <<kv, kvIndex, watcherVars, sessions, sessID, npc, newRet, closedCh, doneSent,
                   sigPending, fwd, destroys, renewals, custVars>>

\* Close, lines 63-65
CloseCheck(t) ==
    /\ clpc[t] = "check"
    /\ IF sessID = ""
       THEN CloseReturn(t, "nil")
       ELSE /\ clpc' = [clpc EXCEPT ![t] = "destroy"]
            /\ UNCHANGED <<closeRet, lpc>>
    /\ UNCHANGED <<kv, kvIndex, watcherVars, sessions, sessID, npc, newRet, closedCh, doneSent,
                   sigPending, fwd, destroys, renewals, custVars>>

\* Close, lines 67-72: session.Destroy(s.ID); an empty id is an error of the store
CloseDestroy(t, fail) ==
    /\ clpc[t] = "destroy"
    /\ IF fail \/ sessID = ""
       THEN /\ CloseReturn(t, "err")
            /\ UNCHANGED <<kv, kvIndex, sessions, destroys>>
       ELSE /\ IF sessID \in sessions
               THEN InvalidateAt(sessID)
               ELSE UNCHANGED <<kv, kvIndex, sessions>>
            /\ destroys' = destroys + 1
            /\ clpc' = [clpc EXCEPT ![t] = "clear"]
            /\ UNCHANGED <<closeRet, lpc>>
    /\ UNCHANGED <<watcherVars, sessID, npc, newRet, closedCh, doneSent, sigPending, fwd,
                   renewals, custVars>>

\* Close, lines 74-79: the send on closedCh if a receiver is ready, s.ID = ""
CloseClear(t) ==
    /\ clpc[t] = "clear"
    /\ doneSent' = (doneSent \/ (closedCh # "nil" /\ npc = "renew"))
    /\ sessID' = ""
    /\ CloseReturn(t, "nil")
    /\ UNCHANGED <<kv, kvIndex, watcherVars, sessions, npc, newRet, closedCh, sigPending, fwd,
                   destroys, renewals, custVars>>

\* before NewSession is called
SessionNotMade ==
    /\ npc = "idle"
    /\ newRet = "none"
    /\ closedCh = "nil"
    /\ doneSent = FALSE
    /\ sigPending = 0
    /\ fwd = "recv"
    /\ lpc = "none"
    /\ clpc = [t \in Closers |-> "idle"]
    /\ closeRet = [t \in Closers |-> "none"]
    /\ destroys = 0
    /\ renewals = 0

\* NewSession has returned a Session, no signal has arrived, Close was not called
SessionReturned ==
    /\ npc = "returned"
    /\ newRet = "session"
    /\ closedCh = "nil"
    /\ doneSent = FALSE
    /\ sigPending = 0
    /\ fwd = "recv"
    /\ lpc = "wait"
    /\ clpc = [t \in Closers |-> "idle"]
    /\ closeRet = [t \in Closers |-> "none"]
    /\ destroys = 0
    /\ renewals = 0

----------------------------------------------------------------------------
(* The state publisher *)

CustSrcs == {"customer.go", "session.go"}

CustNames == {<<"a">>, <<"/", "a">>}

MaxStates == 2          \* the caller sends at most this many states

RECURSIVE SeqsUpTo(_, _)
SeqsUpTo(S, n) ==
    IF n = 0 THEN {<<>>}
    ELSE LET shorter == SeqsUpTo(S, n - 1)
         IN  shorter \cup {Append(q, x) : q \in shorter, x \in S}

\* the return of Run with what it defers: customer.go deletes the key (and drops
\* the error of the delete), session.go clears running
RunExit(err, delFail) ==
    /\ cpc' = "returned"
    /\ runErr' = err
    /\ IF custSrc = "customer.go"
       THEN /\ IF delFail
               THEN UNCHANGED <<kv, kvIndex>>
               ELSE StoreDeleteIfPresent(fullKey(custPrefix, custName))
            /\ delReqs' = delReqs + 1
            /\ UNCHANGED <<running, mayObserve>>
       ELSE /\ running' = FALSE
            /\ mayObserve' = mayObserve \cup {FALSE}
            /\ UNCHANGED <<kv, kvIndex, delReqs>>

\* Run, up to the acquire
RunBegin(sess) ==
    /\ cpc = "idle"
    /\ custSession' = sess
    /\ sessionID' = IF sess # "nil" THEN sessID ELSE ""
    /\ IF custSrc = "session.go"
       THEN /\ running' = TRUE
            /\ mayObserve' = mayObserve \cup {TRUE}
       ELSE UNCHANGED <<running, mayObserve>>
    /\ cpc' = IF sess # "nil" THEN "acquire" ELSE "pump"
    /\ UNCHANGED <<storeVars, watcherVars, sessVars, custSrc, custPrefix, custName, toSend,
                   chClosed, state, runErr, rpc,
                   removeRet, delReqs>>

\* Run returning only on an error of the acquire, not on a refusal
RunAcquireIgnoringRefusal(fail, delFail) ==
    /\ cpc = "acquire"
    /\ LET outcome == IF fail THEN "error"
                      ELSE AcquireOutcome(fullKey(custPrefix, custName), sessionID)
       IN  IF outcome = "error"
           THEN /\ cpc' = "returned"
                /\ runErr' = "err"
                /\ IF custSrc = "customer.go"
                   THEN /\ IF delFail
                           THEN UNCHANGED <<kv, kvIndex>>
                           ELSE StoreDeleteIfPresent(fullKey(custPrefix, custName))
                        /\ delReqs' = delReqs + 1
                        /\ UNCHANGED <<running, mayObserve>>
                   ELSE /\ running' = FALSE
                        /\ mayObserve' = mayObserve \cup {FALSE}
                        /\ UNCHANGED <<kv, kvIndex, delReqs>>
           ELSE /\ IF outcome = "acquired"
                   THEN /\ kv' = [kv EXCEPT ![fullKey(custPrefix, custName)] =
                                                 Entry(<<>>, sessionID)]
                        /\ kvIndex' = kvIndex + 1
                   ELSE UNCHANGED <<kv, kvIndex>>
                /\ cpc' = "pump"
                /\ UNCHANGED <<running, mayObserve, runErr, delReqs>>
    /\ UNCHANGED <<watcherVars, sessVars, custSrc, custPrefix, custName, custSession,
                   sessionID, toSend, chClosed, state, rpc, removeRet>>

\* Run, the acquire of the key with the session
RunAcquire(fail, delFail) ==
    /\ cpc = "acquire"
    /\ LET outcome == IF fail THEN "error"
                      ELSE AcquireOutcome(fullKey(custPrefix, custName), sessionID)
       IN  IF outcome = "acquired"
           THEN /\ kv' = [kv EXCEPT ![fullKey(custPrefix, custName)] = Entry(<<>>, sessionID)]
                /\ kvIndex' = kvIndex + 1
                /\ cpc' = "pump"
                /\ UNCHANGED <<running, mayObserve, runErr, delReqs>>
           ELSE RunExit("err", delFail)
    /\ UNCHANGED <<watcherVars, sessVars, custSrc, custPrefix, custName, custSession,
                   sessionID, toSend, chClosed, state, rpc,
                   removeRet>>

\* Run, the receive of the next state: the channel is unbuffered, so the caller's
\* send completes with it and the caller has then seen what Run wrote before
RunReceive ==
    /\ cpc = "pump"
    /\ toSend # <<>>
    /\ state' = Head(toSend)
    /\ toSend' = Tail(toSend)
    /\ mayObserve' = {running}
    /\ cpc' = "put"
    /\ UNCHANGED <<storeVars, watcherVars, sessVars, custSrc, custPrefix, custName,
                   custSession, sessionID, running, chClosed, runErr, rpc,
                   removeRet, delReqs>>

\* Run, the write of the received state
RunPut(fail, delFail) ==
    /\ cpc = "put"
    /\ IF fail
       THEN RunExit("err", delFail)
       ELSE /\ StorePut(fullKey(custPrefix, custName), Bytes(state))
            /\ cpc' = "pump"
            /\ UNCHANGED <<running, mayObserve, runErr, delReqs>>
    /\ UNCHANGED <<watcherVars, sessVars, custSrc, custPrefix, custName, custSession,
                   sessionID, toSend, chClosed, state, rpc,
                   removeRet>>

\* Run, the end of the range loop on a closed channel
RunClosed(delFail) ==
    /\ cpc = "pump"
    /\ toSend = <<>>
    /\ chClosed
    /\ RunExit("nil", delFail)
    /\ UNCHANGED <<watcherVars, sessVars, custSrc, custPrefix, custName, custSession,
                   sessionID, toSend, chClosed, state, rpc,
                   removeRet>>

\* the caller closes the state channel after its last send
CloseSource ==
    /\ ~chClosed
    /\ toSend = <<>>
    /\ chClosed' = TRUE
    /\ UNCHANGED <<storeVars, watcherVars, sessVars, custSrc, custPrefix, custName,
                   custSession, sessionID, cpc, running, mayObserve, toSend, state, runErr,
                   rpc,
                   removeRet, delReqs>>

\* the caller calls Customer.Remove (session.go)
RemoveCall ==
    /\ custSrc = "session.go"
    /\ rpc = "idle"
    /\ rpc' = "called"
    /\ UNCHANGED <<storeVars, watcherVars, sessVars, custSrc, custPrefix, custName,
                   custSession, sessionID, cpc, running, mayObserve, toSend, chClosed, state,
                   runErr, removeRet, delReqs>>

\* Remove, the test of c.running: the read is not synchronised with Run's writes
\* and yields one of the values the caller may observe
RemoveCheck(observed) ==
    /\ rpc = "called"
    /\ observed \in mayObserve
    /\ IF observed
       THEN /\ removeRet' = "running"
            /\ rpc' = "idle"
       ELSE /\ rpc' = "delete"
            /\ UNCHANGED removeRet
    /\ UNCHANGED <<storeVars, watcherVars, sessVars, custSrc, custPrefix, custName,
                   custSession, sessionID, cpc, running, mayObserve, toSend, chClosed, state,
                   runErr, delReqs>>

\* Remove, the delete of the key
RemoveDelete(fail) ==
    /\ rpc = "delete"
    /\ rpc' = "idle"
    /\ IF fail
       THEN /\ removeRet' = "err"
            /\ UNCHANGED <<kv, kvIndex>>
       ELSE /\ removeRet' = "nil"
            /\ StoreDeleteIfPresent(fullKey(custPrefix, custName))
    /\ UNCHANGED <<watcherVars, sessVars, custSrc, custPrefix, custName, custSession,
                   sessionID, cpc, running, mayObserve, toSend, chClosed, state, runErr, delReqs>>

\* the caller waits for the goroutine that ran Run to finish
Join ==
    /\ cpc = "returned"
    /\ mayObserve # {running}
    /\ mayObserve' = {running}
    /\ UNCHANGED <<storeVars, watcherVars, sessVars, custSrc, custPrefix, custName,
                   custSession, sessionID, cpc, running, toSend, chClosed, state, runErr,
                   rpc,
                   removeRet, delReqs>>

----------------------------------------------------------------------------
(* The watcher and its store *)

\* the store empty, at its first index
StoreInit ==
    /\ kv = [k \in Keys |-> Absent]
    /\ kvIndex = 1
    /\ replica = [kv |-> kv, index |-> kvIndex]

\* Wait not yet called
WatcherIdle ==
    /\ now = 0
    /\ wpc = "init"
    /\ timeout = 0
    /\ startTime = 0
    /\ lastWaitIndex = 0
    /\ processedIndex = 0
    /\ nodes = EmptyMap
    /\ newNodes = <<>>
    /\ allReady = FALSE
    /\ nodesCount = 0
    /\ retOk = FALSE
    /\ retErr = FALSE
    /\ nodeUpdateCh = <<>>
    /\ nodeReadyCh = <<>>
    /\ allReadyCh = <<>>

\* a publisher constructed by NewCustomer, Run not yet called
PublisherIdle ==
    /\ custSession = "nil"
    /\ sessionID = ""
    /\ cpc = "idle"
    /\ running = FALSE
    /\ mayObserve = {FALSE}
    /\ chClosed = FALSE
    /\ state = ""
    /\ runErr = "none"
    /\ rpc = "idle"
    /\ removeRet = "none"
    /\ delReqs = 0

\* no publisher of this process takes part
NoPublisher ==
    /\ sessions = {}
    /\ sessID = ""
    /\ SessionNotMade
    /\ custSrc = "customer.go"
    /\ custPrefix = <<"w">>
    /\ custName = <<"a">>
    /\ toSend = <<>>
    /\ PublisherIdle

Init ==
    /\ kv = [k \in Keys |-> Absent]
    /\ kvIndex = 1
    /\ replica = [kv |-> kv, index |-> kvIndex]
    /\ now = 0
    /\ wpc = "init"
    /\ prefix \in Prefixes
    /\ minimumNodes \in 0..Cardinality(Names)
    /\ isReady \in {NewWaiterIsReady(fn) : fn \in IsReadyFns}
    /\ timeout = 0
    /\ startTime = 0
    /\ lastWaitIndex = 0
    /\ processedIndex = 0
    /\ nodes = EmptyMap
    /\ newNodes = <<>>
    /\ allReady = FALSE
    /\ nodesCount = 0
    /\ retOk = FALSE
    /\ retErr = FALSE
    /\ nodeUpdateCh = <<>>
    /\ nodeReadyCh = <<>>
    /\ allReadyCh = <<>>
    /\ NoPublisher

Next ==
    \/ \E t \in 0..(MaxTime - 1), fail \in BOOLEAN : WaitBegin(t, fail)
    \/ LoopCheck
    \/ \E ceiling, fail \in BOOLEAN : GetNodeList(FALSE, ceiling, fail)
    \/ EvaluateRound
    \/ ReceiveNodeUpdate
    \/ ReceiveNodeReady
    \/ ReceiveAllReady
    \/ Tick
    \/ \E n \in Names, s \in States : NodePut(n, s)
    \/ \E n \in Names : NodeDelete(n)

Spec == Init /\ [][Next]_vars

----------------------------------------------------------------------------
(* Properties of the watcher *)

\* every node of the round's listing satisfies IsReady
ListedReady == \A i \in 1..Len(newNodes) : IsReady(isReady, newNodes[i])

\* the node keys (the tree entry excluded) a server's view holds under the prefix
ListedNodeKeys(view, p) ==
    {k \in Keys : view[k].present /\ HasPrefix(k, p) /\ k # TreeKey(p)}

\* a step of Wait that passes the second timeout check and runs updateNodes
RoundEvaluated ==
    /\ wpc = "recheck"
    /\ wpc' # "recheck"
    /\ ~(now - startTime > timeout)

\* the snapshot map holds exactly the nodes of the round's listing, with their states
SnapshotIsListing ==
    /\ DOMAIN nodes = {newNodes[i].Node : i \in 1..Len(newNodes)}
    /\ \A i \in 1..Len(newNodes) : nodes[newNodes[i].Node] = newNodes[i]

\* C1: Wait returns (true, nil) only if every node of the listing of the round in
\* which it returns satisfies IsReady, whether or not the node changed in that round.
C1_TrueOnlyIfAllListedReady ==
    (wpc = "done" /\ retOk) => ListedReady

\* C2: Wait never returns (true, nil) in a round whose listing, the tree entry
\* excluded, holds fewer than MinimumNodes nodes: nodeCount is the number of node
\* keys the store listed, and success needs allReady and nodeCount >= MinimumNodes
\* in the same round.
C2_SuccessNeedsMinimumNodes ==
    [][ /\ (wpc = "getNodeList" /\ wpc' = "recheck")
            => \E view \in {kv, replica.kv} :
                  Len(newNodes') = Cardinality(ListedNodeKeys(view, prefix))
        /\ (wpc = "recheck" /\ wpc' = "done" /\ retOk')
            => /\ allReady'
               /\ nodesCount' = Len(newNodes)
               /\ Len(newNodes) >= minimumNodes ]_vars

\* C2 witness: a round in which every listed node is ready and there are fewer
\* than MinimumNodes of them, after which Wait goes on waiting
C2_Witness ==
    /\ wpc = "loop"
    /\ lastWaitIndex > 0
    /\ allReady
    /\ ListedReady
    /\ nodesCount = 1
    /\ minimumNodes = 2

\* C3: the allReady value updateNodes returns for a round is true if and only if
\* every node of that round's listing satisfies IsReady.
C3_AllReadyIffAllListedReady ==
    [][ RoundEvaluated => (allReady' <=> ListedReady) ]_vars

\* C4: after updateNodes has processed a listing, the snapshot map equals that
\* listing: an entry with the listed state for every listed node, none for others.
C4_SnapshotEqualsListing ==
    [][ RoundEvaluated => SnapshotIsListing' ]_vars

\* C4 witness: a later round has been processed in which a node that was in the
\* snapshot was no longer listed
C4_Witness ==
    /\ wpc = "loop"
    /\ SnapshotIsListing
    /\ \E i \in 1..Len(nodeUpdateCh) :
          /\ nodeUpdateCh[i].State = ""
          /\ nodeUpdateCh[i].LastState # ""
          /\ nodeUpdateCh[i].Node \notin DOMAIN nodes

\* what Wait does when a timeout check stops it: (false, nil), nothing evaluated
StoppedByTimeout ==
    /\ wpc' = "done"
    /\ ~retOk'
    /\ ~retErr'
    /\ UNCHANGED <<nodes, allReady, nodesCount, chanVars>>

\* C5 as stated: at either check, an elapsed time >= timeout makes Wait return
\* (false, nil) without evaluating the listing; Wait(timeout=0) with zero nodes
\* present never returns (true, nil).
C5_StopsAtElapsedAtLeastTimeout ==
    [][ /\ (wpc \in {"loop", "recheck"} /\ wpc' # wpc /\ now - startTime >= timeout)
            => StoppedByTimeout
        /\ (wpc' = "done" /\ timeout' = 0 /\ newNodes' = <<>>) => ~retOk' ]_vars

\* C5 amended: at either check, an elapsed time > timeout makes Wait return
\* (false, nil) without evaluating the listing and without an error, and an elapsed
\* time <= timeout lets the round go on (to the query, or to updateNodes and the
\* decision); Wait(timeout=0) with zero nodes present never returns (true, nil)
\* when MinimumNodes >= 1.
C5_StopsAtElapsedOverTimeout ==
    [][ /\ (wpc \in {"loop", "recheck"} /\ wpc' # wpc /\ now - startTime > timeout)
            => StoppedByTimeout
        /\ (wpc = "loop" /\ wpc' # wpc /\ now - startTime <= timeout)
            => wpc' = "getNodeList"
        /\ (wpc = "recheck" /\ wpc' # wpc /\ now - startTime <= timeout)
            => /\ SnapshotIsListing'
               /\ wpc' \in {"loop", "done"}
               /\ wpc' = "done" => (retOk' /\ ~retErr')
        /\ (wpc' = "done" /\ timeout' = 0 /\ newNodes' = <<>> /\ minimumNodes >= 1)
            => ~retOk' ]_vars

\* C5 witness: the check after the query stopped Wait with a listing of one node
\* that was never evaluated
C5_Witness ==
    /\ wpc = "done"
    /\ ~retOk
    /\ ~retErr
    /\ Len(newNodes) = 1
    /\ nodes = EmptyMap
    /\ nodeUpdateCh = <<>>
    /\ now - startTime > timeout

----------------------------------------------------------------------------
(* The publisher, its session and its store *)

InitCustomer ==
    /\ StoreInit
    /\ WatcherIdle
    /\ prefix = <<"w">>
    /\ minimumNodes = 1
    /\ isReady = "default"
    /\ sessions = {OwnSession, OtherSession}
    /\ sessID = OwnSession
    /\ SessionReturned
    /\ custSrc \in CustSrcs
    /\ custPrefix \in Prefixes
    /\ custName \in CustNames
    /\ toSend \in SeqsUpTo(States, MaxStates)
    /\ PublisherIdle

NextCustomer ==
    \/ \E sess \in {"nil", "session"} : RunBegin(sess)
    \/ \E fail, delFail \in BOOLEAN : RunAcquire(fail, delFail)
    \/ RunReceive
    \/ \E fail, delFail \in BOOLEAN : RunPut(fail, delFail)
    \/ \E delFail \in BOOLEAN : RunClosed(delFail)
    \/ CloseSource
    \/ RemoveCall
    \/ \E observed \in BOOLEAN : RemoveCheck(observed)
    \/ \E fail \in BOOLEAN : RemoveDelete(fail)
    \/ Join
    \/ OtherAcquire
    \/ \E s \in {OwnSession, OtherSession} : SessionInvalidate(s)
    \/ \E fail \in BOOLEAN : CloseSession(fail)

SpecCustomer == InitCustomer /\ [][NextCustomer]_vars

\* the publisher's key
custKey == fullKey(custPrefix, custName)

\* a Run call has started and not yet returned
RunActive == cpc \notin {"idle", "returned"}

----------------------------------------------------------------------------
(* The publisher and the watcher on one store *)

InitSystem ==
    /\ StoreInit
    /\ WatcherIdle
    /\ custPrefix \in Prefixes
    /\ prefix = custPrefix
    /\ minimumNodes = 1
    /\ isReady \in {NewWaiterIsReady(fn) : fn \in IsReadyFns}
    /\ sessions = {OwnSession}
    /\ sessID = OwnSession
    /\ SessionReturned
    /\ custSrc = "customer.go"
    /\ custName \in CustNames
    /\ toSend \in SeqsUpTo(States, MaxStates)
    /\ PublisherIdle

NextSystem ==
    \/ \E t \in 0..(MaxTime - 1), fail \in BOOLEAN : WaitBegin(t, fail)
    \/ LoopCheck
    \/ \E ceiling, fail \in BOOLEAN : GetNodeList(FALSE, ceiling, fail)
    \/ EvaluateRound
    \/ Tick
    \/ \E sess \in {"nil", "session"} : RunBegin(sess)
    \/ \E fail, delFail \in BOOLEAN : RunAcquire(fail, delFail)
    \/ RunReceive
    \/ \E fail, delFail \in BOOLEAN : RunPut(fail, delFail)
    \/ \E delFail \in BOOLEAN : RunClosed(delFail)
    \/ CloseSource
    \/ SessionInvalidate(OwnSession)

SpecSystem == InitSystem /\ [][NextSystem]_vars

\* C6 as stated: with MinimumNodes = 1 and the default IsReady, Wait does not
\* return true while the only node's value is "busy" or the empty value written
\* by the acquire.
C6_NotTrueWhileBusyOrEmpty ==
    [][ (minimumNodes = 1 /\ isReady = "default" /\ wpc = "recheck" /\ wpc' = "done"
         /\ retOk')
        => ~(\E i \in 1..Len(newNodes) : newNodes[i].State \in {"", "busy"}) ]_vars

\* C6 amended: with MinimumNodes = 1 and the default IsReady, a round that passes
\* its timeout checks makes Wait return (true, nil) exactly when its listing holds
\* at least one node, whatever that node's value (the empty value of the acquire
\* and "busy" included); Wait does not wait for "ready".
C6_TrueOnceAnyNodeListed ==
    [][ (minimumNodes = 1 /\ isReady = "default" /\ RoundEvaluated)
        => ((wpc' = "done" /\ retOk' /\ ~retErr') <=> Len(newNodes) >= 1) ]_vars

\* C6 witness: Wait has returned true on a listing whose only node is "busy", and
\* the node's key still holds "busy"
C6_Witness ==
    /\ wpc = "done"
    /\ retOk
    /\ isReady = "default"
    /\ minimumNodes = 1
    /\ Len(newNodes) = 1
    /\ newNodes[1].State = "busy"
    /\ kv[custKey].present
    /\ kv[custKey].value = Bytes("busy")

\* a listing step of the watcher that the store answered
Listed == wpc = "getNodeList" /\ wpc' = "recheck"

\* Run has written the state it last received and waits for the next one, and the
\* session it acquired the key with, if any, is still valid
Published ==
    /\ cpc = "pump"
    /\ state # ""
    /\ (custSession = "nil" \/ sessionID \in sessions)

----------------------------------------------------------------------------
(* Properties of the publisher *)

\* C7: once Run has returned after the state source was closed, whatever the
\* number of states it delivered, the publisher's key is absent from the store,
\* provided no other writer holds that key.
C7_KeyAbsentAfterRun ==
    (cpc = "returned" /\ runErr = "nil" /\ kv[custKey].session # OtherSession)
        => ~kv[custKey].present

\* C8: Remove returns an error and issues no delete whenever it is called while
\* a Run call has started and not yet returned; called before Run starts or after
\* Run has returned it goes on to the delete, which (unless the store reports an
\* error) removes the key and makes Remove return nil, at every such call.
C8_RemoveRefusedIffRunning ==
    [][ /\ (rpc = "called" /\ rpc' # "called")
            => IF RunActive
               THEN rpc' = "idle" /\ removeRet' = "running" /\ UNCHANGED <<kv, kvIndex>>
               ELSE rpc' = "delete"
        /\ (rpc = "delete" /\ rpc' = "idle")
            => \/ removeRet' = "err"
               \/ removeRet' = "nil" /\ ~kv'[custKey].present ]_vars

\* C10: when the acquire of the key is refused (another session holds it, the
\* store reports no error), Run returns a non-nil error at once, writes no state
\* value to the key then or later, and consumes none of the states offered to it;
\* a Run without a session attempts no acquire.
C10_RefusedAcquireReturnsError ==
    [][ /\ (cpc = "acquire" /\ cpc' # "acquire"
            /\ AcquireOutcome(custKey, sessionID) = "refused")
            => /\ cpc' = "returned"
               /\ runErr' = "err"
               /\ kv'[custKey] \in {kv[custKey], Absent}
        /\ (cpc = "returned")
            => /\ cpc' = "returned" /\ toSend' = toSend /\ runErr' = runErr
               /\ kv'[custKey].value \in {kv[custKey].value, <<>>}
        /\ (cpc = "idle" /\ cpc' # "idle")
            => (cpc' = "acquire" <=> custSession' # "nil") ]_vars

\* C10 witness: Run has returned an error while another session holds the key
\* and the caller still has states to send
C10_Witness ==
    /\ cpc = "returned"
    /\ runErr = "err"
    /\ custSession # "nil"
    /\ sessionID \in sessions
    /\ toSend # <<>>
    /\ kv[custKey].present
    /\ kv[custKey].session = OtherSession

----------------------------------------------------------------------------
(* Properties of the watcher: errors, events, transitions, the change index *)

\* no event is put on any of the three channels (a consumer may take some off)
NoEventEmitted ==
    /\ \E k \in 0..Len(nodeUpdateCh) : nodeUpdateCh' = SubSeq(nodeUpdateCh, k + 1, Len(nodeUpdateCh))
    /\ \E k \in 0..Len(nodeReadyCh) : nodeReadyCh' = SubSeq(nodeReadyCh, k + 1, Len(nodeReadyCh))
    /\ \E k \in 0..Len(allReadyCh) : allReadyCh' = SubSeq(allReadyCh, k + 1, Len(allReadyCh))

\* C12: a store call of Wait (the put of the tree entry, a listing query) either
\* succeeds or makes Wait return (false, err) in that same step, with no retry, no
\* snapshot update and no event; after its return Wait does nothing more; and
\* Wait returns a non-nil error only from a store call, never together with true.
C12_StoreFailureAborts ==
    [][ /\ (wpc = "init" /\ wpc' # wpc)
            => \/ wpc' = "loop" /\ kv'[TreeKey(prefix)].present
               \/ /\ wpc' = "done" /\ ~retOk' /\ retErr'
                  /\ UNCHANGED <<kv, kvIndex, nodes, lastWaitIndex, chanVars>>
        /\ (wpc = "getNodeList" /\ wpc' # wpc)
            => \/ wpc' = "recheck" /\ ~retErr'
               \/ /\ wpc' = "done" /\ ~retOk' /\ retErr'
                  /\ UNCHANGED <<kv, kvIndex, nodes, newNodes, lastWaitIndex, chanVars>>
        /\ (wpc \in {"loop", "recheck"} /\ wpc' = "done") => ~retErr'
        /\ (wpc = "done")
            => /\ UNCHANGED <<wpc, retOk, retErr, nodes, newNodes, lastWaitIndex, allReady,
                              nodesCount>>
               /\ NoEventEmitted
        /\ (retErr' => ~retOk') ]_vars

\* C12 witness: a listing query failed after an earlier round had filled the
\* snapshot and emitted an event, and Wait has returned (false, err)
C12_Witness ==
    /\ wpc = "done"
    /\ retErr
    /\ ~retOk
    /\ lastWaitIndex > 0
    /\ nodes # EmptyMap
    /\ nodeUpdateCh # <<>>

\* what updateNodes returns to Wait, with the channels as they are and with the
\* channels empty, for every iteration order of the snapshot map
SameResultWhateverChannels ==
    \A order \in Orders(DOMAIN nodes) :
        LET r == updateNodes(nodes, newNodes, order, isReady, nodeUpdateCh, nodeReadyCh)
            e == updateNodes(nodes, newNodes, order, isReady, <<>>, <<>>)
        IN  /\ r.nodes = e.nodes
            /\ r.allReady = e.allReady
            /\ r.nodeCount = e.nodeCount

\* a full channel is left as it is by Wait (its consumer may take events off)
FullStaysFull(ch, chNext) ==
    Len(ch) = ChanCap => \E k \in 0..ChanCap : chNext = SubSeq(ch, k + 1, ChanCap)

\* C13: each of the three channels holds at most 2 undelivered events; whatever
\* they hold, the step of Wait that runs updateNodes and the decision can be taken
\* (no send blocks), a send to a full channel drops the event, and the snapshot,
\* allReady and nodeCount of the round, hence Wait's result, do not depend on what
\* the channels hold.
C13_EventsNeverStall ==
    /\ [](/\ Len(nodeUpdateCh) <= ChanCap
          /\ Len(nodeReadyCh) <= ChanCap
          /\ Len(allReadyCh) <= ChanCap
          /\ (wpc = "recheck" => (ENABLED EvaluateRound /\ SameResultWhateverChannels)))
    /\ [][ (wpc = "recheck" /\ wpc' # wpc)
            => /\ FullStaysFull(nodeUpdateCh, nodeUpdateCh')
               /\ FullStaysFull(nodeReadyCh, nodeReadyCh')
               /\ FullStaysFull(allReadyCh, allReadyCh') ]_vars

\* C13 witness: the update channel is full and still holds the appearance of a node
\* that has since left the snapshot, the event of its disappearance having been
\* dropped, and Wait has gone on to return true
C13_Witness ==
    /\ wpc = "done"
    /\ retOk
    /\ Len(nodeUpdateCh) = ChanCap
    /\ \E i \in 1..Len(nodeUpdateCh) :
          /\ nodeUpdateCh[i].State # ""
          /\ nodeUpdateCh[i].Node \notin DOMAIN nodes
          /\ \A j \in 1..Len(nodeUpdateCh) :
                nodeUpdateCh[j].Node = nodeUpdateCh[i].Node => nodeUpdateCh[j].State # ""

\* the WaitNodeUpdates updateNodes builds for node n in the round at hand
AttemptsFor(att, n) == {i \in 1..Len(att) : att[i].Node = n}

\* the state the round's listing gives node n
ListedState(n) == newNodes[CHOOSE i \in 1..Len(newNodes) : newNodes[i].Node = n].State

\* one WaitNodeUpdate for every node that appeared, changed or disappeared, with
\* the states the change gives it, and none for any other node
OneTransitionPerChange(att) ==
    /\ \A i \in 1..Len(att) : att[i].Node \in DOMAIN nodes \/ Contains(newNodes, att[i].Node)
    /\ \A n \in DOMAIN nodes \cup {newNodes[i].Node : i \in 1..Len(newNodes)} :
          LET known == n \in DOMAIN nodes
              listed == Contains(newNodes, n)
              changed == ~known \/ ~listed \/ nodes[n].State # ListedState(n)
          IN  IF ~changed THEN AttemptsFor(att, n) = {}
              ELSE /\ Cardinality(AttemptsFor(att, n)) = 1
                   /\ \A i \in AttemptsFor(att, n) :
                         att[i] = [Node |-> n,
                                   State |-> IF listed THEN ListedState(n) ELSE "",
                                   LastState |-> IF known THEN nodes[n].State ELSE ""]

\* a WaitNodeUpdate with the state "" is built only for a node that disappeared
EmptyOnlyForDisappeared(att) ==
    \A i \in 1..Len(att) :
        att[i].State = "" => (att[i].Node \in DOMAIN nodes /\ ~Contains(newNodes, att[i].Node))

\* the WaitNodeUpdates of the round at hand, for an iteration order of the snapshot
Attempts(order) ==
    updateNodes(nodes, newNodes, order, isReady, nodeUpdateCh, nodeReadyCh).att

UpdatedNodes ==
    {i \in 1..Len(newNodes) :
        \/ newNodes[i].Node \notin DOMAIN nodes
        \/ nodes[newNodes[i].Node].State # newNodes[i].State}

\* the nodes the round at hand offers on an empty NodeReady channel: the updated
\* nodes that satisfy IsReady, in listing order, as far as they fit
ReadyOffered ==
    LET indexed == [i \in 1..Len(newNodes) |-> [node |-> newNodes[i], at |-> i]]
        Accepted(x) == x.at \in UpdatedNodes /\ IsReady(isReady, x.node)
        picked == SelectSeq(indexed, Accepted)
    IN  [k \in 1..Min(Len(picked), ChanCap) |-> picked[k].node]

\* C18: in a round IsReady is called on the nodes that are new to the snapshot or
\* whose value changed, with the updated node, and on no other: the round's allReady
\* is true exactly when every such node satisfies IsReady, and exactly those of them
\* that do are offered on NodeReady; unchanged and disappearing nodes have no part.
C18_OnlyUpdatedNodesEvaluated ==
    [][ RoundEvaluated
        => /\ allReady' <=> \A i \in UpdatedNodes : IsReady(isReady, newNodes[i])
           /\ \A order \in Orders(DOMAIN nodes) :
                 updateNodes(nodes, newNodes, order, isReady, <<>>, <<>>).rdy
                     = ReadyOffered ]_vars

\* C18 witness: a round found allReady true and Wait returned true although a
\* listed node, unchanged since the round before, does not satisfy IsReady, and
\* another node had disappeared
C18_Witness ==
    /\ wpc = "done"
    /\ retOk
    /\ allReady
    /\ ~ListedReady
    /\ SnapshotIsListing
    /\ \E i \in 1..Len(nodeUpdateCh) :
          /\ nodeUpdateCh[i].State = ""
          /\ nodeUpdateCh[i].Node \notin DOMAIN nodes

----------------------------------------------------------------------------
(* The watcher on a store whose followers answer its queries (AllowStale) *)

InitStale ==
    /\ StoreInit
    /\ WatcherIdle
    /\ prefix = <<"w">>
    /\ minimumNodes = 1
    /\ isReady = NewWaiterIsReady("stateIsReady")
    /\ NoPublisher

NextStale ==
    \/ \E t \in 0..(MaxTime - 1), fail \in BOOLEAN : WaitBegin(t, fail)
    \/ LoopCheck
    \/ \E stale, ceiling, fail \in BOOLEAN : GetNodeList(stale, ceiling, fail)
    \/ EvaluateRound
    \/ Tick
    \/ Replicate
    \/ \E n \in Names, s \in States : NodePut(n, s)
    \/ \E n \in Names : NodeDelete(n)

SpecStale == InitStale /\ [][NextStale]_vars

\* C19: the watcher never applies to its snapshot a listing older than one it
\* already processed: the index of the listing a round hands to updateNodes is at
\* least the index of the listing the round before processed, also when a follower
\* answers the query or the query returns at its wait ceiling.
C19_NeverProcessesOlderListing ==
    [][ RoundEvaluated => lastWaitIndex >= processedIndex ]_vars

----------------------------------------------------------------------------
(* The session alone *)

InitSession ==
    /\ StoreInit
    /\ WatcherIdle
    /\ prefix = <<"w">>
    /\ minimumNodes = 1
    /\ isReady = "default"
    /\ NoPublisher

NextSession ==
    \/ \E fail \in BOOLEAN : NewSessionCreate(fail)
    \/ RenewTick
    \/ \E err \in BOOLEAN : RenewReturn(err)
    \/ Signal
    \/ ForwardSignal
    \/ ListenerReceive
    \/ CloseCall
    \/ CloseNil
    \/ \E t \in Closers : CloseCheck(t)
    \/ \E t \in Closers, fail \in BOOLEAN : CloseDestroy(t, fail)
    \/ \E t \in Closers : CloseClear(t)
    \/ SessionInvalidate(OwnSession)

SpecSession == InitSession /\ [][NextSession]_vars

\* the session with the scheduling the Go runtime and the store give: a goroutine
\* that can take its next step takes it, and a lease that is no longer renewed
\* (NewSession has returned) expires
SpecSessionFair ==
    /\ SpecSession
    /\ WF_vars(ForwardSignal)
    /\ WF_vars(ListenerReceive)
    /\ \A t \in Closers : WF_vars(CloseCheck(t))
    /\ \A t \in Closers : WF_vars(\E fail \in BOOLEAN : CloseDestroy(t, fail))
    /\ \A t \in Closers : WF_vars(CloseClear(t))
    /\ WF_vars(npc = "returned" /\ SessionInvalidate(OwnSession))

\* a Close call of goroutine t returns in this step
CloseReturns(t) == clpc[t] # "idle" /\ clpc'[t] = "idle"

\* C11: a Close that finds the ID empty returns nil and issues no destroy, as does
\* Close on the nil Session of a failed NewSession; a Close whose destroy fails
\* returns the error and leaves the ID unchanged; a Close whose destroy succeeded
\* clears the ID and returns nil, and the ID then stays empty.
C11_CloseIdempotent ==
    [][ /\ \A t \in Closers :
              /\ (clpc[t] = "check" /\ clpc'[t] # "check" /\ sessID = "")
                    => /\ CloseReturns(t) /\ closeRet'[t] = "nil"
                       /\ UNCHANGED <<sessions, destroys, sessID, kv>>
              /\ (clpc[t] = "check" /\ clpc'[t] # "check" /\ sessID # "")
                    => clpc'[t] = "destroy"
              /\ (clpc[t] = "destroy" /\ CloseReturns(t))
                    => /\ closeRet'[t] = "err"
                       /\ UNCHANGED <<sessions, destroys, sessID, kv>>
              /\ (clpc[t] = "destroy" /\ clpc'[t] = "clear")
                    => (destroys' = destroys + 1 /\ sessID \notin sessions')
              /\ (clpc[t] = "clear" /\ clpc'[t] # "clear")
                    => (CloseReturns(t) /\ closeRet'[t] = "nil" /\ sessID' = "")
        /\ (newRet = "err" /\ closeRet'["caller"] # closeRet["caller"])
              => (closeRet'["caller"] = "nil" /\ UNCHANGED <<sessions, destroys, sessID, kv>>)
        /\ (destroys > 0 /\ sessID = "") => sessID' = "" ]_vars

\* C11 witness: one Close has destroyed the lease and cleared the ID, and the Close
\* of the other goroutine, finding the ID empty, has returned nil without a destroy
C11_Witness ==
    /\ sessID = ""
    /\ destroys = 1
    /\ npc = "returned"
    /\ newRet = "session"
    /\ closeRet = [t \in Closers |-> "nil"]
    /\ clpc = [t \in Closers |-> "idle"]
    /\ OwnSession \notin sessions

\* C14: once the store has created the lease, a signal delivered to the process
\* leads to the destroy of the lease through Close (unless the lease has expired
\* before).
C14_SignalLeadsToDestroy ==
    (OwnSession \in sessions /\ sigPending > 0)
        ~> (destroys > 0 \/ OwnSession \notin sessions)

\* C15: when a Close that destroyed the lease returns nil, the done signal it sent
\* on closedCh has been received by the renewal task, and no renew request is
\* issued after a destroy.
C15_CloseStopsRenewal ==
    [][ /\ \A t \in Closers : (clpc[t] = "clear" /\ CloseReturns(t)) => doneSent'
        /\ (renewals' # renewals) => destroys = 0 ]_vars

\* C16: over any interleaving of the Close calls on one Session, the store executes
\* at most one destroy of the lease.
C16_DestroyedAtMostOnce == destroys <= 1

\* C20: on every exit path of Run one delete request for the publisher's key is
\* issued, at the return of Run and so after its last write, and none before.
C20_KeyDeletedOncePerRun ==
    [][ /\ (cpc # "returned" /\ cpc' = "returned") => delReqs' = 1
        /\ (delReqs' # delReqs) => (cpc # "returned" /\ cpc' = "returned") ]_vars

\* C22: a Run whose acquire is refused because another lease holds the key
\* returns without a write and without a delete request on the key: the holder's
\* entry, with its value and its lease, is what the store holds afterwards.
C22_RefusedAcquireLeavesKey ==
    [][ (cpc = "acquire" /\ cpc' = "returned"
         /\ AcquireOutcome(custKey, sessionID) = "refused")
            => (kv'[custKey] = kv[custKey] /\ delReqs' = delReqs) ]_vars

----------------------------------------------------------------------------
(* Termination of Wait and liveness of the barrier *)

\* the listing the leader holds has at least MinimumNodes nodes, all ready
StoreListingReady ==
    LET listing == NodesOf(List(kv, prefix), prefix)
    IN  /\ Len(listing) >= minimumNodes
        /\ \A i \in 1..Len(listing) : IsReady(isReady, listing[i])

InitLive ==
    /\ StoreInit
    /\ WatcherIdle
    /\ prefix = <<"w">>
    /\ minimumNodes = 1
    /\ isReady = NewWaiterIsReady("stateIsReady")
    /\ NoPublisher

\* timeouts up to MaxTime: the clock stops at MaxTime, so a timeout of MaxTime
\* never elapses
NextLive ==
    \/ \E t \in 0..MaxTime, fail \in BOOLEAN : WaitBegin(t, fail)
    \/ LoopCheck
    \/ \E stale, ceiling, fail \in BOOLEAN : GetNodeList(stale, ceiling, fail)
    \/ EvaluateRound
    \/ Tick
    \/ Replicate
    \/ \E n \in Names, s \in States : NodePut(n, s)
    \/ \E n \in Names : NodeDelete(n)

\* Wait's goroutine takes its next step and every query returns: a step of Wait
\* is enabled at each of the three positions and every step of Wait leaves its
\* position, so weak fairness of LoopCheck, GetNodeList and EvaluateRound is that
\* Wait does not stay at one of them for ever. Time passes and the follower
\* catches up with the leader.
SpecLive ==
    /\ InitLive
    /\ [][NextLive]_vars
    /\ []<>(wpc # "loop")
    /\ []<>(wpc # "getNodeList")
    /\ []<>(wpc # "recheck")
    /\ WF_vars(Tick)
    /\ WF_vars(Replicate)

\* C21: a Wait whose timeout can elapse returns; a query is started only by the
\* step of a timeout check that passed, and the step after the query's return is
\* the second check, which returns (false, nil) when the timeout has elapsed: at
\* most one query runs after the last check that passed.
C21_WaitTerminates ==
    /\ (wpc \notin {"init", "done"} /\ timeout < MaxTime) ~> (wpc = "done")
    /\ [][ /\ (wpc # "getNodeList" /\ wpc' = "getNodeList")
                => (wpc = "loop" /\ now - startTime <= timeout)
           /\ (wpc = "getNodeList" /\ wpc' # "getNodeList")
                => wpc' \in {"recheck", "done"}
           /\ (wpc = "recheck" /\ wpc' # "recheck" /\ now - startTime > timeout)
                => StoppedByTimeout ]_vars

\* C21 witness: Wait has returned (false, nil) after the timeout, at the check that
\* follows a query whose listing it did not process
C21_Witness ==
    /\ wpc = "done"
    /\ ~retOk
    /\ ~retErr
    /\ now - startTime > timeout
    /\ lastWaitIndex # processedIndex

\* C23: if from some point on the store's listing holds at least MinimumNodes
\* nodes, all of them ready, then a Wait that was called returns (true, nil),
\* unless its timeout elapses first or the store fails a query.
C23_BarrierLiveness ==
    <>[](wpc # "init" /\ StoreListingReady)
        => <>(wpc = "done" /\ (retOk \/ retErr \/ now - startTime > timeout))

\* C23 witness: Wait has returned (true, nil) after rounds that saw a node not
\* ready, on the listing the store holds, with a timeout that cannot elapse
C23_Witness ==
    /\ wpc = "done"
    /\ retOk
    /\ ~retErr
    /\ timeout = MaxTime
    /\ StoreListingReady
    /\ processedIndex = kvIndex
    /\ DOMAIN nodes # {}
    /\ \A n \in DOMAIN nodes : nodes[n].State = "ready"
    /\ \E i \in 1..Len(nodeUpdateCh) : nodeUpdateCh[i].State = "busy"

====
